---- MODULE Spec2Model ----
(***************************************************************************)
(* Model of anvil's raw DRM backend (anvil/src/raw_drm.rs): the startup    *)
(* sequence of run_raw_drm, its main loop (dispatch, flush_clients,        *)
(* refresh) and the two callbacks of DrmHandlerImpl, ready (the render     *)
(* pass) and error.  The program is single threaded: pc is the position of *)
(* that one thread, and a callback runs to its end before the reactor      *)
(* takes the next event.                                                   *)
(***************************************************************************)
EXTENDS Integers, Sequences, FiniteSets

\* ------------------------------------------------------------------ bounds
\* Number of surface ids the clients may have alive at the same time.
MaxSurfaces == 2
\* Number of entries the window map may hold, dead ones included.
MaxWindows == 2
\* How many times in a row the image import of one buffer may yield nothing.
MaxImportFailures == 1
\* Number of connectors a device may enumerate.
MaxConnectors == 2

Surfaces == 1..MaxSurfaces
NoSurface == 0

\* Placements handed out by the window map and subsurface locations set by
\* the clients.
Places == {<<5, 5>>}
SubLocations == {<<10, 10>>}

\* ------------------------------------------------------------- data values
\* attributes.user_data.buffer : Option<Buffer>
NoBuffer == [kind |-> "None"]
EglBuffers ==
    { [kind |-> "Egl", format |-> "RGBA", y_inverted |-> TRUE, size |-> <<64, 32>>],
      [kind |-> "Egl", format |-> "Y_UV", y_inverted |-> FALSE, size |-> <<64, 32>>] }
ShmBuffers == { [kind |-> "Shm", size |-> <<100, 100>>] }
Buffers == EglBuffers \cup ShmBuffers

\* attributes.user_data.texture : Option<Texture>; a texture remembers the
\* buffer it was uploaded from.
NoTexture == [kind |-> "None"]
TextureOf(b) == [kind |-> "Tex", from |-> b]
Textures == { TextureOf(b) : b \in Buffers }

\* ---------------------------------------------------------------- the device
\* What the device enumerates: its connectors in enumeration order, each with
\* its connection state, its encoders and its modes in the order it lists
\* them; its encoders, each with its current crtc and the crtcs it can drive;
\* its crtcs in resource order.
NoConnector == 0
NoEncoder == 0
NoCrtc == 0
NoMode == "none"
EncoderIds == {1, 2}
ConnectorInfos ==
    [state : {"Connected", "Disconnected"},
     encoders : {<< >>, <<1>>, <<2, 1>>},
     modes : {<< >>, <<"1080p", "720p">>}]
EncoderInfos ==
    [current_crtc : {NoCrtc, 2}, possible_crtcs : {{}, {2}, {1, 2}}]
ConnectorLists == UNION { [1..n -> ConnectorInfos] : n \in 0..MaxConnectors }
Devices ==
    [connectors : ConnectorLists,
     encoders : [EncoderIds -> EncoderInfos],
     crtcs : {<<1, 2>>, <<2, 1>>}]

\* A card with a free connector and a monitor on the second one.
TypicalDevice ==
    [connectors |->
        << [state |-> "Disconnected", encoders |-> <<1>>,
            modes |-> << >>],
           [state |-> "Connected", encoders |-> <<2, 1>>,
            modes |-> <<"1080p", "720p">>] >>,
     encoders |-> [e \in EncoderIds |->
                     [current_crtc |-> NoCrtc, possible_crtcs |-> {1, 2}]],
     crtcs |-> <<1, 2>>]

\* connector_info, encoder_info, crtc and mode before they are selected
NoOutput ==
    [connector |-> NoConnector, encoder |-> NoEncoder, crtc |-> NoCrtc,
     mode |-> NoMode]

VARIABLES
    pc,          \* position of the thread
    abortCause,  \* why the process panicked ("none" while it runs)
    dev,         \* what the device enumerates
    output,      \* the connector, encoder, crtc and mode startup selected
    egl,         \* egl_display is Some
    eglLog,      \* what startup logged about the binding of the display
    flip,        \* page flip of the submitted frame: none, pending, ready
    role,        \* per surface: free, toplevel, subsurface
    parent,      \* per subsurface: its parent surface
    loc,         \* per subsurface: SubsurfaceRole location
    buffer,      \* per surface: attributes.user_data.buffer
    texture,     \* per surface: attributes.user_data.texture
    windows,     \* the window map, bottom first
    inFlight,    \* frames begun (drawer.draw) and not finished
    wi,          \* render pass: index of the window being drawn
    stack,       \* render pass: nodes still to visit, with their offsets
    visited,     \* render pass: the callback's runs, in order, with what the
                 \* node held when it was entered
    skipped,     \* render pass: nodes that answered SkipChildren
    quads,       \* render pass: render_texture calls, in order
    uplog,       \* per surface: outcomes of the uploads of its current buffer
    dropped,     \* per surface: the pass dropped its unsupported buffer
    diedThisTick \* toplevels destroyed during the current dispatch call

vars == << pc, abortCause, dev, output, egl, eglLog, flip, role, parent, loc, buffer, texture,
           windows, inFlight, wi, stack, visited, skipped, quads, uplog,
           dropped, diedThisTick >>

bootVars == << dev, output, eglLog >>
surfaceVars == << role, parent, loc, buffer, texture, uplog, dropped >>
clientVars == << surfaceVars, windows, diedThisTick >>
passVars == << wi, stack, visited, skipped, quads >>

\* ------------------------------------------------------------------ helpers
Add(a, b) == << a[1] + b[1], a[2] + b[2] >>

Min(S) == CHOOSE x \in S : \A y \in S : x <= y

RECURSIVE SetToSeq(_)
SetToSeq(S) == IF S = {} THEN << >> ELSE << Min(S) >> \o SetToSeq(S \ {Min(S)})

Children(s) == { c \in Surfaces : role[c] = "subsurface" /\ parent[c] = s }

RECURSIVE Ancestors(_)
Ancestors(s) ==
    IF role[s] = "subsurface" THEN {parent[s]} \cup Ancestors(parent[s]) ELSE {}

Failures(log) == Len(SelectSeq(log, LAMBDA o : o = "fail"))

\* The state run_raw_drm starts in, on one of the given devices
Boot(devices) ==
    /\ pc = "open_device"
    /\ abortCause = "none"
    /\ dev \in devices
    /\ output = NoOutput
    /\ egl = FALSE
    /\ eglLog = << >>
    /\ flip = "none"
    /\ inFlight = 0
    /\ role = [s \in Surfaces |-> "free"]
    /\ parent = [s \in Surfaces |-> NoSurface]
    /\ loc = [s \in Surfaces |-> <<0, 0>>]
    /\ buffer = [s \in Surfaces |-> NoBuffer]
    /\ texture = [s \in Surfaces |-> NoTexture]
    /\ uplog = [s \in Surfaces |-> << >>]
    /\ dropped = [s \in Surfaces |-> FALSE]
    /\ windows = << >>
    /\ diedThisTick = 0
    /\ wi = 0
    /\ stack = << >>
    /\ visited = << >>
    /\ skipped = {}
    /\ quads = << >>

Init == Boot({TypicalDevice})

\* The records of a render pass are cleared.
ClearPass ==
    /\ wi' = 0
    /\ stack' = << >>
    /\ visited' = << >>
    /\ skipped' = {}
    /\ quads' = << >>

\* A panic: the thread unwinds and the process is gone, its clients' surfaces
\* and the device with it.  A frame that was begun is dropped as it is.
Gone(cause) ==
    /\ pc' = "aborted"
    /\ abortCause' = cause
    /\ egl' = FALSE
    /\ flip' = "none"
    /\ role' = [s \in Surfaces |-> "free"]
    /\ parent' = [s \in Surfaces |-> NoSurface]
    /\ loc' = [s \in Surfaces |-> <<0, 0>>]
    /\ buffer' = [s \in Surfaces |-> NoBuffer]
    /\ texture' = [s \in Surfaces |-> NoTexture]
    /\ uplog' = [s \in Surfaces |-> << >>]
    /\ dropped' = [s \in Surfaces |-> FALSE]
    /\ windows' = << >>
    /\ diedThisTick' = 0
    /\ ClearPass
    /\ UNCHANGED bootVars

Panic(cause) == Gone(cause) /\ UNCHANGED inFlight

\* ------------------------------------------------------------------ startup
\* One step of the startup sequence that either succeeds or unwraps an Err.
StartupStep(from, to) ==
    /\ pc = from
    /\ \E ok \in BOOLEAN :
        IF ok
        THEN /\ pc' = to
             /\ UNCHANGED << abortCause, egl, bootVars, flip, inFlight >>
             /\ UNCHANGED clientVars /\ UNCHANGED passVars
        ELSE Panic("startup")

\* OpenOptions::open("/dev/dri/card0").unwrap(), DrmDevice::new(..).unwrap()
OpenDevice == StartupStep("open_device", "select_output")

\* A selection that would take the first connector, connected or not
ConnectorChoiceFirst(d) == IF d.connectors = << >> THEN NoConnector ELSE 1

\* connectors().iter().map(load_from_device).find(state == Connected)
ConnectorChoice(d) ==
    LET connected == { i \in 1..Len(d.connectors) :
                         d.connectors[i].state = "Connected" }
    IN IF connected = {} THEN NoConnector ELSE Min(connected)

\* res_handles.filter_crtcs(possible_crtcs): the device's crtcs, in resource
\* order, that the encoder can drive
FilterCrtcs(d, possible) == SelectSeq(d.crtcs, LAMBDA c : c \in possible)

\* A selection that would take the first compatible crtc at once
CrtcChoiceFirstCompatible(d, e) ==
    LET compatible == FilterCrtcs(d, e.possible_crtcs)
    IN IF compatible = << >> THEN NoCrtc ELSE compatible[1]

\* encoder_info.current_crtc().unwrap_or_else(|| first of filter_crtcs)
CrtcChoice(d, e) ==
    IF e.current_crtc # NoCrtc THEN e.current_crtc
    ELSE LET compatible == FilterCrtcs(d, e.possible_crtcs)
         IN IF compatible = << >> THEN NoCrtc ELSE compatible[1]

\* A selection that stops: the unwrap of None, the index into an empty list
Unselected(cause) == [error |-> cause, output |-> NoOutput]

\* The connector, its first encoder, the crtc and the first mode, in the
\* order the code takes them.
Selection(d) ==
    LET ci == ConnectorChoice(d) IN
    IF ci = NoConnector THEN Unselected("no_connected_output")
    ELSE LET c == d.connectors[ci] IN
         IF c.encoders = << >> THEN Unselected("no_encoder")
         ELSE LET crtc == CrtcChoice(d, d.encoders[c.encoders[1]]) IN
              IF crtc = NoCrtc THEN Unselected("no_compatible_crtc")
              ELSE IF c.modes = << >> THEN Unselected("no_mode")
              ELSE [error |-> "none",
                    output |-> [connector |-> ci, encoder |-> c.encoders[1],
                                crtc |-> crtc, mode |-> c.modes[1]]]

\* resource_handles, the connector, its encoder, the crtc and the mode; ok
\* tells whether the ioctls that load them succeeded.
SelectOutput ==
    /\ pc = "select_output"
    /\ \E ok \in BOOLEAN :
        LET sel == Selection(dev) IN
        IF ok /\ sel.error = "none"
        THEN /\ pc' = "create_backend"
             /\ output' = sel.output
             /\ UNCHANGED << abortCause, dev, egl, eglLog, flip, inFlight >>
             /\ UNCHANGED clientVars /\ UNCHANGED passVars
        ELSE Gone(IF ok THEN sel.error ELSE "startup") /\ UNCHANGED inFlight

\* device.create_backend(crtc, mode, connectors).unwrap()
CreateBackend == StartupStep("create_backend", "initial_draw")

\* let mut frame = renderer.draw(); frame.clear_color(..)
InitialDraw ==
    /\ pc = "initial_draw"
    /\ pc' = "initial_finish"
    /\ inFlight' = inFlight + 1
    /\ UNCHANGED << abortCause, egl, bootVars, flip >>
    /\ UNCHANGED clientVars /\ UNCHANGED passVars

\* frame.finish().unwrap()
InitialFinish ==
    /\ pc = "initial_finish"
    /\ inFlight' = inFlight - 1
    /\ \E ok \in BOOLEAN :
        IF ok
        THEN /\ pc' = "bind_wl_display"
             /\ flip' = "pending"
             /\ UNCHANGED << abortCause, egl, bootVars >>
             /\ UNCHANGED clientVars /\ UNCHANGED passVars
        ELSE Gone("startup")

\* info!(log, "EGL hardware-acceleration enabled"), in the Ok arm only
BindLogged(ok) == IF ok THEN << "EGL hardware-acceleration enabled" >> ELSE << >>

\* A startup that would unwrap the result of the binding
BindWlDisplayUnwrapped ==
    /\ pc = "bind_wl_display"
    /\ \E ok \in BOOLEAN :
        IF ok
        THEN /\ pc' = "init_globals"
             /\ egl' = TRUE
             /\ eglLog' = eglLog \o BindLogged(TRUE)
             /\ UNCHANGED << abortCause, dev, output, flip, inFlight >>
             /\ UNCHANGED clientVars /\ UNCHANGED passVars
        ELSE Panic("startup")

\* renderer.bind_wl_display(&display): Some(egl_display) in the Ok arm, None
\* in the other one
BindWlDisplay ==
    /\ pc = "bind_wl_display"
    /\ pc' = "init_globals"
    /\ \E ok \in BOOLEAN :
        /\ egl' = ok
        /\ eglLog' = eglLog \o BindLogged(ok)
    /\ UNCHANGED << abortCause, dev, output, flip, inFlight >>
    /\ UNCHANGED clientVars /\ UNCHANGED passVars

\* init_shm_global, init_shell, display.add_socket_auto().unwrap()
InitGlobals == StartupStep("init_globals", "bind_device")

\* drm_device_bind(..).unwrap()
DrmDeviceBind == StartupStep("bind_device", "dispatch")

\* ---------------------------------------------------------------- main loop
\* A reactor that would call back while a callback is still running
ReactorReentrant(p) ==
    p \in {"dispatch", "ready_windows", "ready_tree", "ready_finish"}

\* event_loop.dispatch is the only place where the reactor calls back into
\* the program: client requests and the two device callbacks run there.
Reactor(p) == p = "dispatch"

\* A loop that goes back to dispatch without the refresh
LoopWithoutRefresh(p) ==
    CASE p = "dispatch" -> "flush_clients"
      [] p = "flush_clients" -> "dispatch"
      [] p = "refresh" -> "dispatch"

\* loop { dispatch; flush_clients; refresh }
LoopNext(p) ==
    CASE p = "dispatch" -> "flush_clients"
      [] p = "flush_clients" -> "refresh"
      [] p = "refresh" -> "dispatch"

\* Window-stack maintenance: entries whose toplevel is dead are pruned.
Refreshed(w) == SelectSeq(w, LAMBDA e : e.surface # NoSurface)

\* event_loop.dispatch(Some(16)) returns.
DispatchReturn ==
    /\ pc = "dispatch"
    /\ pc' = LoopNext(pc)
    /\ diedThisTick' = 0
    /\ UNCHANGED << abortCause, egl, bootVars, flip, inFlight >>
    /\ UNCHANGED << surfaceVars, windows >> /\ UNCHANGED passVars

FlushClients ==
    /\ pc = "flush_clients"
    /\ pc' = LoopNext(pc)
    /\ UNCHANGED << abortCause, egl, bootVars, flip, inFlight >>
    /\ UNCHANGED clientVars /\ UNCHANGED passVars

Refresh ==
    /\ pc = "refresh"
    /\ pc' = LoopNext(pc)
    /\ windows' = Refreshed(windows)
    /\ UNCHANGED << abortCause, egl, bootVars, flip, inFlight, diedThisTick >>
    /\ UNCHANGED surfaceVars /\ UNCHANGED passVars

\* ------------------------------------------------------------------ clients
\* Requests of the clients, as the shell handles them during dispatch.
FreeIds == { s \in Surfaces : role[s] = "free" }

\* A new toplevel is inserted on top of the window map.
ClientCreateToplevel ==
    /\ Reactor(pc)
    /\ FreeIds # {}
    /\ Len(windows) < MaxWindows
    /\ \E place \in Places :
        LET s == Min(FreeIds) IN
        /\ role' = [role EXCEPT ![s] = "toplevel"]
        /\ windows' = Append(windows, [surface |-> s, place |-> place])
    /\ UNCHANGED << pc, abortCause, egl, bootVars, flip, inFlight >>
    /\ UNCHANGED << parent, loc, buffer, texture, uplog, dropped, diedThisTick >>
    /\ UNCHANGED passVars

ClientCreateSubsurface ==
    /\ Reactor(pc)
    /\ FreeIds # {}
    /\ \E p \in Surfaces \ FreeIds, l \in SubLocations :
        LET s == Min(FreeIds) IN
        /\ role' = [role EXCEPT ![s] = "subsurface"]
        /\ parent' = [parent EXCEPT ![s] = p]
        /\ loc' = [loc EXCEPT ![s] = l]
    /\ UNCHANGED << pc, abortCause, egl, bootVars, flip, inFlight >>
    /\ UNCHANGED << buffer, texture, windows, uplog, dropped, diedThisTick >>
    /\ UNCHANGED passVars

\* The buffers a client can attach: GPU images need the EGL display bound.
Attachable == IF egl THEN Buffers ELSE ShmBuffers

\* wl_surface.commit with a new buffer, or with none (the contents are erased).
ClientCommit ==
    /\ Reactor(pc)
    /\ \E s \in Surfaces \ FreeIds, b \in Attachable \cup {NoBuffer} :
        /\ buffer' = [buffer EXCEPT ![s] = b]
        /\ texture' = [texture EXCEPT ![s] = NoTexture]
        /\ uplog' = [uplog EXCEPT ![s] = << >>]
        /\ dropped' = [dropped EXCEPT ![s] = FALSE]
    /\ UNCHANGED << pc, abortCause, egl, bootVars, flip, inFlight >>
    /\ UNCHANGED << role, parent, loc, windows, diedThisTick >>
    /\ UNCHANGED passVars

\* A surface without subsurfaces is destroyed; the entry of a toplevel stays in
\* the window map, without a surface, until the next refresh.
Killed(w, s) ==
    [i \in 1..Len(w) |->
        IF w[i].surface = s THEN [w[i] EXCEPT !.surface = NoSurface] ELSE w[i]]

ClientDestroy ==
    /\ Reactor(pc)
    /\ \E s \in Surfaces \ FreeIds :
        /\ Children(s) = {}
        /\ role' = [role EXCEPT ![s] = "free"]
        /\ parent' = [parent EXCEPT ![s] = NoSurface]
        /\ loc' = [loc EXCEPT ![s] = <<0, 0>>]
        /\ buffer' = [buffer EXCEPT ![s] = NoBuffer]
        /\ texture' = [texture EXCEPT ![s] = NoTexture]
        /\ uplog' = [uplog EXCEPT ![s] = << >>]
        /\ dropped' = [dropped EXCEPT ![s] = FALSE]
        /\ windows' = Killed(windows, s)
        /\ diedThisTick' = IF role[s] = "toplevel" THEN diedThisTick + 1
                                                   ELSE diedThisTick
    /\ UNCHANGED << pc, abortCause, egl, bootVars, flip, inFlight >>
    /\ UNCHANGED passVars

\* ----------------------------------------------------------------- hardware
\* The page flip of the submitted frame completes: the device becomes readable.
HwFlipCompleted ==
    /\ pc # "aborted"
    /\ flip = "pending"
    /\ flip' = "ready"
    /\ UNCHANGED << pc, abortCause, egl, bootVars, inFlight >>
    /\ UNCHANGED clientVars /\ UNCHANGED passVars

\* An error callback that would return to the reactor
ErrorReturns == FALSE

\* DrmHandlerImpl::error: panic!("{:?}", error)
ErrorPanics == TRUE

\* Reading the device's events fails during dispatch: the error callback runs.
Error ==
    /\ Reactor(pc)
    /\ IF ErrorPanics
       THEN Panic("device_error")
       ELSE /\ abortCause' = "device_error"
            /\ UNCHANGED << pc, egl, bootVars, flip, inFlight >>
            /\ UNCHANGED clientVars /\ UNCHANGED passVars

\* -------------------------------------------------------------- render pass
\* DrmHandlerImpl::ready, one step per call it makes into the backend, the
\* window map and the surface tree.

\* drawer.draw() and clear_color
ReadyBegin ==
    /\ Reactor(pc)
    /\ flip = "ready"
    /\ flip' = "none"
    /\ pc' = "ready_windows"
    /\ inFlight' = inFlight + 1
    /\ wi' = 1
    /\ UNCHANGED << stack, visited, skipped, quads >>
    /\ UNCHANGED << abortCause, egl, bootVars >>
    /\ UNCHANGED clientVars

\* A pass that would prune the dead entry it meets
ReadySkipWindowPruning ==
    /\ pc = "ready_windows"
    /\ wi <= Len(windows)
    /\ windows[wi].surface = NoSurface
    /\ windows' = Refreshed(windows)
    /\ UNCHANGED << pc, abortCause, egl, bootVars, flip, inFlight >>
    /\ UNCHANGED passVars
    /\ UNCHANGED << surfaceVars, diedThisTick >>

\* A pass that would stop at the first dead entry
ReadySkipWindowStops ==
    /\ pc = "ready_windows"
    /\ wi <= Len(windows)
    /\ windows[wi].surface = NoSurface
    /\ wi' = Len(windows) + 1
    /\ UNCHANGED << pc, abortCause, egl, bootVars, flip, inFlight >>
    /\ UNCHANGED << stack, visited, skipped, quads >>
    /\ UNCHANGED clientVars

\* with_windows_from_bottom_to_top: the next window, when get_surface() is
\* None.
ReadySkipWindow ==
    /\ pc = "ready_windows"
    /\ wi <= Len(windows)
    /\ windows[wi].surface = NoSurface
    /\ wi' = wi + 1
    /\ UNCHANGED << pc, abortCause, egl, bootVars, flip, inFlight >>
    /\ UNCHANGED << stack, visited, skipped, quads >>
    /\ UNCHANGED clientVars

\* with_surface_tree_upward(wl_surface, initial_place, ..) is entered: the
\* walk starts at the toplevel's surface with the window's placement.
ReadyWalkTree ==
    /\ pc = "ready_windows"
    /\ wi <= Len(windows)
    /\ windows[wi].surface # NoSurface
    /\ pc' = "ready_tree"
    /\ stack' = << [node |-> windows[wi].surface, at |-> windows[wi].place] >>
    /\ UNCHANGED << abortCause, egl, bootVars, flip, inFlight >>
    /\ UNCHANGED << wi, visited, skipped, quads >>
    /\ UNCHANGED clientVars

\* A pass that would upload whatever the texture slot holds
NeedsUploadAlways(t) == TRUE

\* attributes.user_data.texture.is_none()
NeedsUpload(t) == t = NoTexture

\* Format::RGB | Format::RGBA
Supported(format) == format \in {"RGB", "RGBA"}

\* A pass that would leave the unsupported buffer in place
RemoveNever(b) == FALSE

\* let mut remove = false; ... remove = true
Remove(b) == b.kind = "Egl" /\ ~Supported(b.format)

\* The node is entered without a texture and with a GPU image of a format
\* the pass does not handle.
Unsupported(b, t) ==
    t = NoTexture /\ b.kind = "Egl" /\ b.format \notin {"RGB", "RGBA"}

\* One of the two upload primitives is called for this node.
UploadCalled(b, t) ==
    /\ NeedsUpload(t)
    /\ \/ b.kind = "Shm"
       \/ b.kind = "Egl" /\ Supported(b.format)

\* A population block that would import a GPU image whatever its format
PopulatedAnyFormat(b, t, imported) ==
    IF ~NeedsUpload(t) THEN t
    ELSE IF b.kind = "Egl"
         THEN IF imported THEN TextureOf(b) ELSE NoTexture
         ELSE IF b.kind = "Shm" THEN TextureOf(b) ELSE t

\* The texture slot after the population block; imported tells whether
\* texture_from_egl gave a texture.
Populated(b, t, imported) ==
    IF ~NeedsUpload(t) THEN t
    ELSE IF b.kind = "Egl"
         THEN IF Supported(b.format)
              THEN IF imported THEN TextureOf(b) ELSE NoTexture
              ELSE NoTexture
         ELSE IF b.kind = "Shm" THEN TextureOf(b) ELSE t

\* A population block that would give up every GPU image it looks at
KeptOnlyMemory(b, t) == IF NeedsUpload(t) /\ b.kind = "Egl" THEN NoBuffer ELSE b

\* The buffer slot after the population block
Kept(b, t) == IF NeedsUpload(t) /\ Remove(b) THEN NoBuffer ELSE b

\* A callback that would not add the subsurface location
OffsetIgnored(n, at) == at

\* if let Ok(subdata) = Role::<SubsurfaceRole>::data(role) { x += ..; y += .. }
Offset(n, at) == IF role[n] = "subsurface" THEN Add(at, loc[n]) ELSE at

\* The vertical flip render_texture is called with
Inverted(b) == IF b.kind = "Egl" THEN b.y_inverted ELSE FALSE

\* A callback that would always descend
TraversalAlwaysDescends(t, at) == [kind |-> "DoChildren", at |-> at]

\* The callback's answer: DoChildren((x, y)) or SkipChildren
Traversal(t, at) ==
    IF t # NoTexture THEN [kind |-> "DoChildren", at |-> at]
                     ELSE [kind |-> "SkipChildren", at |-> at]

\* The walk goes on with the children of n, then with what was left.
Descend(n, at, rest) ==
    LET cs == SetToSeq(Children(n)) IN
    [i \in 1..Len(cs) |-> [node |-> cs[i], at |-> at]] \o rest

\* The callback on the next node of the walk
ReadyVisitNode ==
    /\ pc = "ready_tree"
    /\ stack # << >>
    /\ \E imported \in BOOLEAN :
        LET n == Head(stack).node
            b0 == buffer[n]
            t0 == texture[n]
            t1 == Populated(b0, t0, imported)
            b1 == Kept(b0, t0)
            at == IF t1 # NoTexture THEN Offset(n, Head(stack).at)
                                    ELSE Head(stack).at
            answer == Traversal(t1, at)
        IN
        /\ imported \/ Failures(uplog[n]) < MaxImportFailures
        /\ IF t1 # NoTexture /\ b1 = NoBuffer
           THEN \* buffer.as_ref().unwrap() on None
                Panic("buffer_unwrap")
           ELSE /\ texture' = [texture EXCEPT ![n] = t1]
                /\ buffer' = [buffer EXCEPT ![n] = b1]
                /\ uplog' = IF UploadCalled(b0, t0)
                            THEN [uplog EXCEPT ![n] =
                                   Append(@, IF t1 # NoTexture THEN "ok"
                                                               ELSE "fail")]
                            ELSE uplog
                /\ dropped' = [dropped EXCEPT
                                 ![n] = @ \/ Unsupported(b0, t0)]
                /\ visited' = Append(visited, [node |-> n,
                                               had |-> b0.kind,
                                               hit |-> t0 # NoTexture])
                /\ skipped' = IF t1 = NoTexture THEN skipped \cup {n}
                                                ELSE skipped
                /\ quads' = IF t1 # NoTexture
                            THEN Append(quads, [node |-> n,
                                                flip |-> Inverted(b1),
                                                size |-> b1.size,
                                                pos |-> at])
                            ELSE quads
                /\ stack' = IF answer.kind = "DoChildren"
                            THEN Descend(n, answer.at, Tail(stack))
                            ELSE Tail(stack)
                /\ UNCHANGED << pc, abortCause, egl, bootVars, flip, inFlight, wi >>
                /\ UNCHANGED << role, parent, loc, windows, diedThisTick >>

\* with_surface_tree_upward returns and its Result is unwrapped.
ReadyWalkReturn ==
    /\ pc = "ready_tree"
    /\ stack = << >>
    /\ \E ok \in BOOLEAN :
        IF ok
        THEN /\ pc' = "ready_windows"
             /\ wi' = wi + 1
             /\ UNCHANGED << abortCause, egl, bootVars, flip, inFlight >>
             /\ UNCHANGED << stack, visited, skipped, quads >>
             /\ UNCHANGED clientVars
        ELSE Panic("walk_unwrap")

\* The last window is done.
ReadyWindowsDone ==
    /\ pc = "ready_windows"
    /\ wi > Len(windows)
    /\ pc' = "ready_finish"
    /\ UNCHANGED << abortCause, egl, bootVars, flip, inFlight >>
    /\ UNCHANGED passVars
    /\ UNCHANGED clientVars

\* frame.finish().unwrap(): the frame is submitted and the callback returns
\* to the reactor.
ReadyFinish ==
    /\ pc = "ready_finish"
    /\ inFlight' = inFlight - 1
    /\ \E ok \in BOOLEAN :
        IF ok
        THEN /\ pc' = "dispatch"
             /\ flip' = "pending"
             /\ ClearPass
             /\ UNCHANGED << abortCause, egl, bootVars >>
             /\ UNCHANGED clientVars
        ELSE Gone("finish_unwrap")

\* ------------------------------------------------------------ specification
Startup ==
    \/ OpenDevice
    \/ SelectOutput
    \/ CreateBackend
    \/ InitialDraw
    \/ InitialFinish
    \/ BindWlDisplay
    \/ InitGlobals
    \/ DrmDeviceBind

MainLoop ==
    \/ DispatchReturn
    \/ FlushClients
    \/ Refresh

Clients ==
    \/ ClientCreateToplevel
    \/ ClientCreateSubsurface
    \/ ClientCommit
    \/ ClientDestroy

Ready ==
    \/ ReadyBegin
    \/ ReadySkipWindow
    \/ ReadyWalkTree
    \/ ReadyVisitNode
    \/ ReadyWalkReturn
    \/ ReadyWindowsDone
    \/ ReadyFinish

Next ==
    \/ Startup
    \/ MainLoop
    \/ Clients
    \/ HwFlipCompleted
    \/ Error
    \/ Ready

Spec == Init /\ [][Next]_vars

\* The startup up to its first frame, on every device.
SelInit == Boot(Devices)

SelNext ==
    \/ OpenDevice
    \/ SelectOutput
    \/ CreateBackend
    \/ InitialDraw
    \/ InitialFinish

SelSpec == SelInit /\ [][SelNext]_vars

\* The steps of a render pass after its first one.
PassSteps ==
    \/ ReadySkipWindow
    \/ ReadyWalkTree
    \/ ReadyVisitNode
    \/ ReadyWalkReturn
    \/ ReadyWindowsDone
    \/ ReadyFinish

\* The thread keeps running, the hardware completes every flip it was asked
\* for, and the reactor calls the flip-completed callback of a device that is
\* readable again and again.
FairSpec ==
    /\ Spec
    /\ WF_vars(Startup)
    /\ WF_vars(MainLoop)
    /\ WF_vars(PassSteps)
    /\ WF_vars(HwFlipCompleted)
    /\ SF_vars(ReadyBegin)

TypeOK ==
    /\ pc \in {"open_device", "select_output", "create_backend", "initial_draw",
               "initial_finish", "bind_wl_display", "init_globals", "bind_device",
               "dispatch", "flush_clients", "refresh", "ready_windows",
               "ready_tree", "ready_finish", "aborted"}
    /\ abortCause \in {"none", "startup", "device_error", "walk_unwrap",
                       "buffer_unwrap", "finish_unwrap", "no_connected_output",
                       "no_encoder", "no_compatible_crtc", "no_mode"}
    /\ dev \in Devices
    /\ output.connector \in 0..Len(dev.connectors)
    /\ egl \in BOOLEAN
    /\ Len(eglLog) <= 1
    /\ flip \in {"none", "pending", "ready"}
    /\ role \in [Surfaces -> {"free", "toplevel", "subsurface"}]
    /\ parent \in [Surfaces -> Surfaces \cup {NoSurface}]
    /\ \A s \in Surfaces : buffer[s] \in Buffers \cup {NoBuffer}
    /\ \A s \in Surfaces : texture[s] \in Textures \cup {NoTexture}
    /\ inFlight \in 0..1

\* ------------------------------------------------------------------ claims
\* The render pass is running: the scheduler's FrameInFlight.
InReady == pc \in {"ready_windows", "ready_tree", "ready_finish"}

\* A frame is being drawn: the startup block or the render pass.
Drawing == InReady \/ pc = "initial_finish"

\* The error callback ran: the scheduler's Faulted.
Faulted == abortCause = "device_error"

VisitedNodes == { visited[i].node : i \in 1..Len(visited) }
QuadNodes == { quads[i].node : i \in 1..Len(quads) }
DeadEntries == { i \in 1..Len(windows) : windows[i].surface = NoSurface }

\* C1: whenever neither the startup block nor a render pass is drawing, every
\* frame that was begun has been finished, and none was finished twice.
C1_EveryFrameFinishedOnce ==
    /\ inFlight \in 0..1
    /\ ~Drawing => inFlight = 0

\* C2: a render pass that ends on an error path (the unwrap of the walk's
\* result, the unwrap of an absent buffer) has finished the frame it began.
C2_FinishedOnErrorPaths ==
    abortCause \in {"walk_unwrap", "buffer_unwrap"} => inFlight = 0

\* C3, as claimed: a surface's buffer sees at most one upload or import
\* attempt for as long as it stays attached.
C3_AtMostOneUploadAttempt == \A s \in Surfaces : Len(uplog[s]) <= 1

\* C3, amended: for an unchanged buffer no upload primitive is called after
\* one has given a texture (every attempt but the last one failed), the
\* texture is cached exactly when the last attempt succeeded, and only the
\* import of a GPU image is ever attempted again.
C3_NoUploadAfterSuccess ==
    \A s \in Surfaces :
        /\ \A i \in 1..(Len(uplog[s]) - 1) : uplog[s][i] = "fail"
        /\ texture[s] # NoTexture
             <=> (uplog[s] # << >> /\ uplog[s][Len(uplog[s])] = "ok")
        /\ Len(uplog[s]) > 1 => buffer[s].kind = "Egl"

\* C3 witness: a pass has run the callback on a node whose texture was already
\* cached, and that node's buffer has been uploaded once.
C3_Witness ==
    \E i \in 1..Len(visited) :
        /\ visited[i].hit
        /\ uplog[visited[i].node] = << "ok" >>

\* C4: once a pass has met a GPU image of an unsupported format on a surface,
\* the surface has no buffer and no texture and no import is attempted for
\* it, until a client commits to the surface again.
C4_DroppedStaysEmpty ==
    \A s \in Surfaces :
        dropped[s] => /\ buffer[s] = NoBuffer
                      /\ texture[s] = NoTexture
                      /\ uplog[s] = << >>

\* C4 witness: a later pass has run the callback on a surface whose buffer an
\* earlier pass had dropped.
C4_Witness ==
    \E i \in 1..Len(visited) :
        /\ dropped[visited[i].node]
        /\ visited[i].had = "None"

\* C5: in a pass no node below a node that answered SkipChildren is visited,
\* waiting to be visited, or rendered; only visited nodes are rendered.
C5_SkippedSubtreeUntouched ==
    InReady =>
        /\ \A n \in VisitedNodes : Ancestors(n) \cap skipped = {}
        /\ \A i \in 1..Len(stack) : Ancestors(stack[i].node) \cap skipped = {}
        /\ QuadNodes \subseteq VisitedNodes \ skipped
        /\ \A n \in skipped : texture[n] = NoTexture

\* C5 witness: a pass is over that skipped a node whose child holds a buffer
\* and a cached texture.
C5_Witness ==
    /\ pc = "ready_finish"
    /\ \E n \in skipped : \E c \in Children(n) :
        /\ buffer[c] \in Buffers
        /\ texture[c] # NoTexture
        /\ c \notin VisitedNodes

\* The toplevel a surface's tree hangs from, the sum of the subsurface
\* locations on the way up to it, and the placement of a toplevel's window.
RECURSIVE RootOf(_)
RootOf(n) == IF role[n] = "subsurface" THEN RootOf(parent[n]) ELSE n

RECURSIVE LocationSum(_)
LocationSum(n) ==
    IF role[n] = "subsurface" THEN Add(loc[n], LocationSum(parent[n]))
                               ELSE <<0, 0>>

PlaceOf(top) ==
    LET i == CHOOSE j \in 1..Len(windows) : windows[j].surface = top
    IN windows[i].place

C7_PassSeesRefreshedStack == InReady => DeadEntries = {}

\* C7, amended: the dead windows a render pass sees are those of the toplevels
\* destroyed earlier in the same dispatch call; whatever was dispatched in an
\* earlier tick has been refreshed.
C7_StaleOnlyFromThisDispatch ==
    InReady => Cardinality(DeadEntries) = diedThisTick

\* C7 witness: a pass has stepped over a window that died in this dispatch.
C7_Witness ==
    /\ InReady
    /\ \E i \in DeadEntries : i < wi

\* C8: the process is never aborted by what a client's surfaces look like.
C8_ClientsNeverAbort == abortCause \notin {"walk_unwrap", "buffer_unwrap"}

\* C9: the error callback leaves the scheduler Faulted, and once Faulted
\* nothing moves any more: no pass starts, no frame is begun or finished.
C9_FaultedIsTerminal ==
    /\ [](Faulted => pc = "aborted" /\ ~InReady)
    /\ [][Faulted => /\ Faulted'
                     /\ pc' = pc
                     /\ inFlight' = inFlight
                     /\ flip' = flip]_vars

\* C9 witness: the scheduler is Faulted.
C9_Witness == Faulted /\ pc = "aborted"

\* C10: at most one frame is in flight; a pass begins only from the idle
\* reactor with no frame open, and while it runs nothing else does: the window
\* map and the tree stay as they are, no error callback runs, no frame is
\* begun, and the frame is finished only by the pass's last step.
C10_OneFrameInFlight ==
    /\ [](inFlight \in 0..1 /\ (InReady => inFlight = 1))
    /\ [][(~InReady /\ InReady') => (pc = "dispatch" /\ inFlight = 0)]_vars
    /\ [][InReady =>
            /\ pc' \in {"ready_windows", "ready_tree", "ready_finish",
                        "dispatch", "aborted"}
            /\ abortCause' # "device_error"
            /\ inFlight' <= inFlight
            /\ (inFlight' < inFlight <=> pc = "ready_finish")
            /\ pc' # "aborted" =>
                 << windows, role, parent, loc >>' = << windows, role, parent, loc >>
            /\ pc' = "dispatch" => pc = "ready_finish"]_vars

\* C10 witness: a pass is in the middle of a surface tree.
C10_Witness == pc = "ready_tree" /\ visited # << >> /\ inFlight = 1

\* C11: a surface that has a cached texture has a buffer, the one the texture
\* was uploaded from, and no pass meets a node that has a texture and no
\* buffer (the unwrap of the buffer at render_texture never fails).
C11_TextureHasItsBuffer ==
    /\ \A s \in Surfaces :
         texture[s] # NoTexture =>
             /\ buffer[s] # NoBuffer
             /\ texture[s] = TextureOf(buffer[s])
    /\ abortCause # "buffer_unwrap"

\* C11 witness: a pass is over that rendered a node from its cached texture
\* and dropped the unsupported buffer of another node.
C11_Witness ==
    /\ pc = "ready_finish"
    /\ \E s \in QuadNodes : texture[s] # NoTexture /\ buffer[s] # NoBuffer
    /\ \E d \in VisitedNodes : dropped[d] /\ buffer[d] = NoBuffer

\* Startup has selected its output and goes on with it.
Selected == pc \notin {"open_device", "select_output", "aborted"}

\* The connectors of the device that report a monitor
ConnectedOnes ==
    { i \in 1..Len(dev.connectors) : dev.connectors[i].state = "Connected" }

\* C12: the connector startup goes on with is the first one, in enumeration
\* order, that is connected, the encoder is the first one that connector
\* lists and the mode the first one it advertises; on a device without a
\* connected connector startup never gets past the selection: it stops there
\* for that reason, with no backend created and no frame begun or submitted.
C12_FirstConnectedOutput ==
    /\ Selected =>
         /\ output.connector \in ConnectedOnes
         /\ \A j \in ConnectedOnes : output.connector <= j
         /\ output.encoder = dev.connectors[output.connector].encoders[1]
         /\ output.mode = dev.connectors[output.connector].modes[1]
    /\ ConnectedOnes = {} =>
         /\ ~Selected
         /\ abortCause \in {"none", "startup", "no_connected_output"}
         /\ inFlight = 0 /\ flip = "none"
    /\ abortCause = "no_connected_output" => ConnectedOnes = {}

\* C12 witness: startup goes on with the second connector of a device whose
\* first connector is disconnected and lists another encoder.
C12_Witness ==
    /\ pc = "initial_draw"
    /\ output.connector = 2
    /\ dev.connectors[1].state = "Disconnected"
    /\ dev.connectors[1].encoders = <<1>>
    /\ output.encoder = 2
    /\ output.mode = "1080p"

\* The encoder the selection looks at: the first one of the first connected
\* connector (NoEncoder when there is none).
FirstEncoder ==
    IF ConnectedOnes = {} THEN NoEncoder
    ELSE LET c == dev.connectors[Min(ConnectedOnes)]
         IN IF c.encoders = << >> THEN NoEncoder ELSE c.encoders[1]

\* The positions, in resource order, of the crtcs an encoder can drive
CompatiblePositions(e) ==
    { k \in 1..Len(dev.crtcs) : dev.crtcs[k] \in dev.encoders[e].possible_crtcs }

\* C13: the crtc startup goes on with is the encoder's current crtc whenever
\* it has one; only otherwise it is the first crtc, in resource order, that
\* the encoder can drive; and startup stops at the selection, for that
\* reason, exactly when the encoder has no current crtc and can drive none.
C13_CurrentCrtcFirst ==
    /\ Selected =>
         LET e == dev.encoders[output.encoder] IN
         IF e.current_crtc # NoCrtc
         THEN output.crtc = e.current_crtc
         ELSE \E k \in CompatiblePositions(output.encoder) :
                 /\ output.crtc = dev.crtcs[k]
                 /\ \A j \in CompatiblePositions(output.encoder) : k <= j
    /\ abortCause = "no_compatible_crtc" =>
         /\ FirstEncoder # NoEncoder
         /\ dev.encoders[FirstEncoder].current_crtc = NoCrtc
         /\ CompatiblePositions(FirstEncoder) = {}
    /\ ( /\ FirstEncoder # NoEncoder
         /\ dev.encoders[FirstEncoder].current_crtc = NoCrtc
         /\ CompatiblePositions(FirstEncoder) = {} ) =>
         /\ ~Selected
         /\ abortCause \in {"none", "startup", "no_compatible_crtc"}

\* C13 witness: the encoder has no current crtc and can drive both crtcs of a
\* device that lists crtc 2 first: startup goes on with crtc 2; and on another
\* device it goes on with the current crtc 2 although crtc 1 comes first.
C13_Witness ==
    /\ pc = "initial_draw"
    /\ output.crtc = 2
    /\ LET e == dev.encoders[output.encoder] IN
       \/ /\ e.current_crtc = NoCrtc
          /\ e.possible_crtcs = {1, 2}
          /\ dev.crtcs = <<2, 1>>
       \/ /\ e.current_crtc = 2
          /\ e.possible_crtcs = {1, 2}
          /\ dev.crtcs = <<1, 2>>

\* C14: whatever the binding of the display gives, startup goes on: the step
\* never aborts, it leaves the binding present or absent, and the thread goes
\* on to the globals, the socket and the registration of the device.
C14_BindFailureNotFatal ==
    /\ [][pc = "bind_wl_display" =>
            /\ pc' \in {"bind_wl_display", "init_globals"}
            /\ abortCause' = "none"]_vars
    /\ [][egl' # egl => (pc = "bind_wl_display" \/ pc' = "aborted")]_vars

\* C14 witness: the binding is absent, the device is registered and a render
\* pass is over that drew a surface from a memory buffer.
C14_Witness ==
    /\ ~egl
    /\ eglLog = << >>
    /\ pc = "ready_finish"
    /\ \E s \in QuadNodes : buffer[s] \in ShmBuffers

\* C15: no step of a render pass changes the window map: its entries, their
\* order and their placements are the same until the pass has returned,
\* whatever the population of the textures gives.
C15_PassKeepsWindowStack ==
    [][(InReady /\ pc' # "aborted") => windows' = windows]_vars

\* C15 witness: a pass is over that stepped over a dead window and whose
\* import of a GPU image gave nothing.
C15_Witness ==
    /\ pc = "ready_finish"
    /\ DeadEntries # {}
    /\ \E s \in skipped : uplog[s] = << "fail" >>

\* The position of a toplevel's window in the window map
WindowOf(top) == CHOOSE j \in 1..Len(windows) : windows[j].surface = top

\* C16: quads are drawn only inside a pass, no node twice, in the order of
\* the windows from the bottom to the top and, inside a tree, a node before
\* every node below it; when the last window is done the tree of every window
\* that has a surface has been entered, dead entries notwithstanding.
C16_DrawOrder ==
    /\ ~InReady => quads = << >>
    /\ InReady =>
         \A i, j \in 1..Len(quads) :
            i < j =>
              /\ quads[i].node # quads[j].node
              /\ WindowOf(RootOf(quads[i].node)) <= WindowOf(RootOf(quads[j].node))
              /\ quads[j].node \notin Ancestors(quads[i].node)
    /\ pc = "ready_finish" =>
         \A k \in 1..Len(windows) :
            windows[k].surface # NoSurface => windows[k].surface \in VisitedNodes

\* C16 witness: a pass is over that stepped over a dead window at the bottom
\* and then drew the toplevel above it and that toplevel's subsurface.
C16_Witness ==
    /\ pc = "ready_finish"
    /\ 1 \in DeadEntries
    /\ Len(quads) = 2
    /\ quads[1].node \in Ancestors(quads[2].node)

\* C17: the startup frame is submitted before the device is registered; a
\* render pass that has begun comes to the submission of its frame; and
\* whenever the reactor idles with a completed flip, a pass comes to the
\* submission of the next frame, unless the scheduler is Faulted.
C17_FrameLoopSustains ==
    /\ [](pc \in {"bind_device", "dispatch"} => flip \in {"pending", "ready"})
    /\ [][(InReady /\ pc # "ready_finish") => InReady']_vars
    /\ (pc = "dispatch" /\ flip = "ready") ~> (pc = "ready_finish" \/ Faulted)

\* The binding was attempted and is absent, and the process runs.
BindingAbsent ==
    /\ ~egl
    /\ pc \in {"init_globals", "bind_device", "dispatch", "flush_clients",
               "refresh", "ready_windows", "ready_tree", "ready_finish"}

\* C18: once the binding has failed, exactly one record about it is in the
\* log, from startup on.
C18_BindFailureLoggedOnce == BindingAbsent => Len(eglLog) = 1

\* C19: when the import of an RGB or RGBA image gives no texture, the pass
\* leaves the buffer where it is and the texture empty, and it neither draws
\* the node nor visits or draws any node below it.
C19_FailedImportKeepsBuffer ==
    InReady =>
        \A i \in 1..Len(visited) :
            LET n == visited[i].node IN
            ( /\ ~visited[i].hit
              /\ uplog[n] # << >>
              /\ uplog[n][Len(uplog[n])] = "fail" ) =>
                /\ buffer[n] \in EglBuffers
                /\ buffer[n].format \in {"RGB", "RGBA"}
                /\ texture[n] = NoTexture
                /\ n \in skipped
                /\ \A m \in VisitedNodes \cup QuadNodes :
                     m # n => n \notin Ancestors(m)
                /\ n \notin QuadNodes

\* C19 witness: a pass is over in which the import of the image of a node
\* that has a subsurface gave nothing.
C19_Witness ==
    /\ pc = "ready_finish"
    /\ \E n \in skipped :
        /\ uplog[n] = << "fail" >>
        /\ buffer[n] \in EglBuffers
        /\ Children(n) # {}

\* A surface resolves to a texture in a pass: it holds a memory buffer, or
\* the texture of its image is there.
Drawable(s) == buffer[s] \in ShmBuffers \/ texture[s] # NoTexture

\* The quads a pass has drawn for a surface
QuadCount(s) == Cardinality({ i \in 1..Len(quads) : quads[i].node = s })

\* C20: when a render pass ends, every surface that holds a memory buffer and
\* whose ancestors are all drawable has been drawn exactly once in it.
C20_MemorySurfaceDrawnOnce ==
    [][(InReady /\ ~InReady') =>
          \A s \in Surfaces :
             ( /\ buffer[s] \in ShmBuffers
               /\ \A a \in Ancestors(s) : Drawable(a) ) => QuadCount(s) = 1]_vars

====
